---- MODULE Spec2Model ----
(***************************************************************************)
(* Orchestration layer of fast-scraper-v2: the /scrape handler             *)
(* (app/main.py) and the bridge to the external Go scraper process          *)
(* (app/go_bridge.py).  Strings whose content the code inspects (URL        *)
(* prefixes, comma separated lists, decimal arguments) are sequences of     *)
(* one-character strings.  Time is counted in integer clock ticks.          *)
(***************************************************************************)
EXTENDS Integers, Sequences, FiniteSets, TLC

VARIABLES
    request,           \* the candidate ScrapeRequest body
    environ,           \* the *_PROXIES environment variables
    pc,                \* position of the request in the handler
    idx,               \* index of the proxy type the loop is at
    combined_results,  \* the report scrape_urls builds
    batch_proxies,     \* the proxy list of the batch in progress
    now,               \* the wall clock
    start_time,        \* clock value recorded before the engine is spawned
    raised,            \* the exception that left the handler, if any
    resolved,          \* proxy types get_proxy_list was called for
    bridge_calls,      \* calls of scrape_with_go, with the executable's state
    invocations,       \* command lines handed to subprocess.run
    runs               \* terminated engine runs and what the bridge made of them

vars == <<request, environ, pc, idx, combined_results, batch_proxies, now, start_time,
          raised, resolved, bridge_calls, invocations, runs>>

-----------------------------------------------------------------------------
(* Bounds of the model *)

\* most URLs one request carries, over all its lists
MaxUrls == 2

-----------------------------------------------------------------------------
(* Program constants *)

MinTimeout == 1
MaxTimeout == 60
MinRetries == 0
MaxRetries == 10
PreviewLen == 1000

ProxyTypes == <<"datacenter", "residential", "mobile">>

-----------------------------------------------------------------------------
(* Strings *)

HttpPrefix  == <<"h", "t", "t", "p", ":", "/", "/">>
HttpsPrefix == <<"h", "t", "t", "p", "s", ":", "/", "/">>

UrlA     == HttpPrefix \o <<"a">>
UrlB     == HttpsPrefix \o <<"b">>
UrlFtp   == <<"f", "t", "p", ":", "/", "/", "c">>
UrlSlash == <<"h", "t", "t", "p", ":", "/", "d">>

Urls == {UrlA, UrlB, UrlFtp, UrlSlash}

startswith(s, prefix) ==
    /\ Len(s) >= Len(prefix)
    /\ SubSeq(s, 1, Len(prefix)) = prefix

RECURSIVE join(_, _)
join(sep, parts) ==
    IF parts = <<>> THEN <<>>
    ELSE IF Len(parts) = 1 THEN parts[1]
    ELSE parts[1] \o sep \o join(sep, Tail(parts))

RECURSIVE split(_, _)
split(s, sep) ==
    IF \A i \in DOMAIN s : s[i] # sep THEN <<s>>
    ELSE LET k == CHOOSE i \in DOMAIN s :
                      s[i] = sep /\ \A j \in 1..(i - 1) : s[j] # sep
         IN  <<SubSeq(s, 1, k - 1)>> \o split(SubSeq(s, k + 1, Len(s)), sep)

RECURSIVE strip(_)
strip(s) ==
    IF s = <<>> THEN s
    ELSE IF Head(s) = " " THEN strip(Tail(s))
    ELSE IF s[Len(s)] = " " THEN strip(SubSeq(s, 1, Len(s) - 1))
    ELSE s

Digits == <<"0", "1", "2", "3", "4", "5", "6", "7", "8", "9">>

RECURSIVE str(_)
str(n) ==
    IF n < 0 THEN <<"-">> \o str(0 - n)
    ELSE IF n < 10 THEN <<Digits[n + 1]>>
    ELSE str(n \div 10) \o <<Digits[(n % 10) + 1]>>

RECURSIVE SelectNonEmpty(_)
SelectNonEmpty(parts) ==
    IF parts = <<>> THEN <<>>
    ELSE IF strip(Head(parts)) # <<>>
         THEN <<strip(Head(parts))>> \o SelectNonEmpty(Tail(parts))
         ELSE SelectNonEmpty(Tail(parts))

-----------------------------------------------------------------------------
(* The request model and its validators.  An Optional[List[str]] field is  *)
(* {} for None and {list} for a list.                                       *)

None == {}

Truthy(field) == field # None /\ field # {<<>>}

UrlsOf(field) == IF Truthy(field) THEN CHOOSE l \in field : TRUE ELSE <<>>

getattr(req, proxy_type) ==
    IF proxy_type = "datacenter" THEN req.datacenter
    ELSE IF proxy_type = "residential" THEN req.residential
    ELSE req.mobile

\* the upper limit taken as exclusive
validate_timeout_exclusive(v) ==
    IF v < MinTimeout THEN {"Timeout must be at least 1 second"}
    ELSE IF v >= MaxTimeout THEN {"Timeout cannot exceed 60 seconds"}
    ELSE {}

validate_timeout(v) ==
    IF v < MinTimeout THEN {"Timeout must be at least 1 second"}
    ELSE IF v > MaxTimeout THEN {"Timeout cannot exceed 60 seconds"}
    ELSE {}

validate_max_retries(v) ==
    IF v < MinRetries THEN {"Max retries cannot be negative"}
    ELSE IF v > MaxRetries THEN {"Max retries cannot exceed 10"}
    ELSE {}

validate_at_least_one_url_type(values) ==
    IF ~ \E i \in DOMAIN ProxyTypes : Truthy(getattr(values, ProxyTypes[i]))
    THEN {"At least one URL list must be provided"}
    ELSE IF \E i \in DOMAIN ProxyTypes :
                \E k \in DOMAIN UrlsOf(getattr(values, ProxyTypes[i])) :
                    LET url == UrlsOf(getattr(values, ProxyTypes[i]))[k]
                    IN  ~ (startswith(url, HttpPrefix) \/ startswith(url, HttpsPrefix))
         THEN {"URL must start with http:// or https://"}
         ELSE {}

\* pydantic collects the errors of the field validators and of the root
\* validator; the request is refused when there is any.
ScrapeRequestErrors(req) ==
    validate_timeout(req.timeout)
        \cup validate_max_retries(req.max_retries)
        \cup validate_at_least_one_url_type(req)

-----------------------------------------------------------------------------
(* get_proxy_list *)

EnvName(proxy_type) ==
    IF proxy_type = "datacenter" THEN "DATACENTER_PROXIES"
    ELSE IF proxy_type = "residential" THEN "RESIDENTIAL_PROXIES"
    ELSE "MOBILE_PROXIES"

get_proxy_list(env, proxy_type) ==
    LET proxies_str == env[EnvName(proxy_type)]
    IN  IF proxies_str = <<>> THEN <<>>
        ELSE SelectNonEmpty(split(proxies_str, ","))

-----------------------------------------------------------------------------
(* Values shared by the bridge and the handler *)

NoError == [exc |-> "", at |-> ""]

Raise(exc, at) == [exc |-> exc, at |-> at]

DocKeys == {"results", "total", "successful", "failed", "total_time_seconds"}

NoDetail == [kind |-> "", preview_len |-> 0, ellipsis |-> FALSE]

\* A dict as json.loads or the bridge builds it: the keys it has, the keys
\* whose value is JSON null, and the values of the others.
Dict(keys, nulls, results, total, successful, failed, seconds) ==
    [keys |-> keys, nulls |-> nulls, results |-> results, total |-> total,
     successful |-> successful, failed |-> failed, total_time_seconds |-> seconds]

EmptyDict == Dict({}, {}, <<>>, 0, 0, 0, 0)

-----------------------------------------------------------------------------
(* The engine executable and the engine process: the environment of the    *)
(* bridge.                                                                  *)

Exe(isfile, x_ok, chmod_ok, exec_ok) ==
    [isfile |-> isfile, x_ok |-> x_ok, chmod_ok |-> chmod_ok, exec_ok |-> exec_ok]

\* whether the operating system can run the executable once the bridge has
\* tried to make it executable
Invocable(exe) == exe.isfile /\ (exe.x_ok \/ exe.chmod_ok) /\ exe.exec_ok

ExeStates ==
    { Exe(TRUE, TRUE, TRUE, TRUE),      \* present and executable
      Exe(FALSE, FALSE, FALSE, FALSE),  \* absent
      Exe(TRUE, FALSE, TRUE, TRUE),     \* not executable, chmod succeeds
      Exe(TRUE, FALSE, FALSE, TRUE),    \* not executable, chmod refused
      Exe(TRUE, TRUE, TRUE, FALSE) }    \* the operating system cannot start it

\* wall-clock ticks one engine run takes
Durations == {1, 2}

\* elapsed figures an engine reports
EngineTimes == {0, 5}

\* lengths of an unparseable standard output
StdoutLens == {PreviewLen, PreviewLen + 1}

EngineResult(url, ok, proxy_type) ==
    [url |-> url, success |-> ok,
     error |-> [msg |-> IF ok THEN "" ELSE "fetch failed", code |-> 0],
     detailed_error |-> NoDetail, proxy_used |-> proxy_type,
     attempts_made |-> 1, elapsed_seconds |-> [num |-> 0, den |-> 1]]

CountTrue(flags) == Cardinality({i \in DOMAIN flags : flags[i]})

\* the document of an engine that kept to the result schema
ConformantDoc(urls, proxy_type, flags, seconds) ==
    Dict(DocKeys, {},
         [i \in DOMAIN urls |-> EngineResult(urls[i], flags[i], proxy_type)],
         Len(urls), CountTrue(flags), Len(urls) - CountTrue(flags), seconds)

AllOk(urls) == [i \in DOMAIN urls |-> TRUE]

Reverse(s) == [i \in DOMAIN s |-> s[Len(s) + 1 - i]]

\* documents that parse as a JSON object: the conformant ones, and a
\* conformant one with one key dropped, one value null, a result record
\* missing, the records in another order, or a count too large
EngineDocs(urls, proxy_type) ==
    LET base == ConformantDoc(urls, proxy_type, AllOk(urls), 0)
    IN  { ConformantDoc(urls, proxy_type, flags, t) :
              flags \in [DOMAIN urls -> BOOLEAN], t \in EngineTimes }
        \cup { [base EXCEPT !.keys = DocKeys \ {k}] : k \in DocKeys }
        \cup { [base EXCEPT !.nulls = {k}] : k \in DocKeys }
        \cup { [base EXCEPT !.results = SubSeq(base.results, 1, Len(urls) - 1)],
               [base EXCEPT !.results = Reverse(base.results)],
               [base EXCEPT !.successful = Len(urls) + 1] }

Stdout(parse, len, doc) == [parse |-> parse, len |-> len, doc |-> doc]

\* what a terminated engine process leaves: its exit status and its output
EngineOutcomes(urls, proxy_type) ==
    { [returncode |-> 1, stdout |-> Stdout("error", 0, EmptyDict)] }
    \cup { [returncode |-> 0, stdout |-> Stdout("error", n, EmptyDict)] :
               n \in StdoutLens }
    \cup { [returncode |-> 0, stdout |-> Stdout("other", 2, EmptyDict)] }
    \cup { [returncode |-> 0, stdout |-> Stdout("object", 2, doc)] :
               doc \in EngineDocs(urls, proxy_type) }

-----------------------------------------------------------------------------
(* scrape_with_go *)

\* the isfile check left out
BridgeStart_unchecked(exe) ==
    IF ~ exe.x_ok /\ ~ exe.chmod_ok /\ exe.isfile
    THEN Raise("PermissionError", "go_bridge.py:47")
    ELSE NoError

\* lines 36-47 and the start of the process at line 74
BridgeStart(exe) ==
    IF ~ exe.isfile THEN Raise("FileNotFoundError", "go_bridge.py:43")
    ELSE IF ~ exe.x_ok /\ ~ exe.chmod_ok THEN Raise("PermissionError", "go_bridge.py:47")
    ELSE IF ~ exe.exec_ok THEN Raise("OSError", "go_bridge.py:74")
    ELSE NoError

\* the bridge's default timeout passed in place of the request's
BuildCmd_default_timeout(urls, proxies, proxy_type, timeout, max_retries) ==
    [urls |-> join(<<",">>, urls),
     proxy_type |-> proxy_type,
     timeout |-> str(10),
     max_retries |-> str(max_retries),
     proxies |-> IF proxies # <<>> THEN {join(<<",">>, proxies)} ELSE {}]

BuildCmd(urls, proxies, proxy_type, timeout, max_retries) ==
    [urls |-> join(<<",">>, urls),
     proxy_type |-> proxy_type,
     timeout |-> str(timeout),
     max_retries |-> str(max_retries),
     proxies |-> IF proxies # <<>> THEN {join(<<",">>, proxies)} ELSE {}]

ErrorResult(url, proxy_type, msg, code, detail, elapsed_time, n) ==
    [url |-> url, success |-> FALSE,
     error |-> [msg |-> msg, code |-> code],
     detailed_error |-> detail, proxy_used |-> proxy_type,
     attempts_made |-> 0, elapsed_seconds |-> [num |-> elapsed_time, den |-> n]]

\* the failed count left at zero
CalledProcessErrorResult_uncounted(urls, proxy_type, returncode, elapsed_time) ==
    Dict(DocKeys \cup {"proxy_type_used"}, {},
         [i \in DOMAIN urls |->
             ErrorResult(urls[i], proxy_type, "Go scraper process failed with code",
                         returncode,
                         [kind |-> "STDOUT STDERR Command", preview_len |-> 0,
                          ellipsis |-> FALSE],
                         elapsed_time, Len(urls))],
         Len(urls), 0, 0, elapsed_time)

\* except subprocess.CalledProcessError
CalledProcessErrorResult(urls, proxy_type, returncode, elapsed_time) ==
    Dict(DocKeys \cup {"proxy_type_used"}, {},
         [i \in DOMAIN urls |->
             ErrorResult(urls[i], proxy_type, "Go scraper process failed with code",
                         returncode,
                         [kind |-> "STDOUT STDERR Command", preview_len |-> 0,
                          ellipsis |-> FALSE],
                         elapsed_time, Len(urls))],
         Len(urls), 0, Len(urls), elapsed_time)

\* process.stdout[:1000] + "..." when the output is longer than 1000
stdout_snippet(stdout) ==
    IF stdout.len > PreviewLen
    THEN [kind |-> "JSON Parse Error", preview_len |-> PreviewLen, ellipsis |-> TRUE]
    ELSE [kind |-> "JSON Parse Error", preview_len |-> stdout.len, ellipsis |-> FALSE]

\* except json.JSONDecodeError
JSONDecodeErrorResult(urls, proxy_type, stdout, elapsed_time) ==
    Dict(DocKeys \cup {"proxy_type_used"}, {},
         [i \in DOMAIN urls |->
             ErrorResult(urls[i], proxy_type, "Failed to parse Go scraper output", 0,
                         stdout_snippet(stdout), elapsed_time, Len(urls))],
         Len(urls), 0, Len(urls), elapsed_time)

Returned(value) == [exc |-> "", at |-> "", value |-> value]

Thrown(exc, at) == [exc |-> exc, at |-> at, value |-> EmptyDict]

\* lines 74-148: what scrape_with_go makes of a terminated process
BridgeFinish(urls, proxy_type, outcome, elapsed_time) ==
    IF outcome.returncode # 0
    THEN Returned(CalledProcessErrorResult(urls, proxy_type, outcome.returncode,
                                           elapsed_time))
    ELSE IF outcome.stdout.parse = "error"
    THEN Returned(JSONDecodeErrorResult(urls, proxy_type, outcome.stdout, elapsed_time))
    ELSE IF outcome.stdout.parse # "object"
    THEN Thrown("TypeError", "go_bridge.py:82")
    ELSE IF {"total", "successful", "failed"} \ outcome.stdout.doc.keys # {}
    THEN Thrown("KeyError", "go_bridge.py:82")
    ELSE Returned(outcome.stdout.doc)

-----------------------------------------------------------------------------
(* scrape_urls *)

\* the clamp left out
Max_unclamped(a, b) == b

Max(a, b) == IF a >= b THEN a ELSE b

RECURSIVE SumTimes(_, _)
SumTimes(details, keys) ==
    IF keys = {} THEN 0
    ELSE LET k == CHOOSE x \in keys : TRUE
         IN  details[k].time_seconds + SumTimes(details, keys \ {k})

\* lines 85-96
NewReport ==
    [results |-> <<>>,
     meta |-> [total_urls |-> 0, successful |-> 0, failed |-> 0,
               total_time_seconds |-> 0, proxy_types_used |-> <<>>,
               python_overhead_seconds |-> 0],
     proxy_type_details |-> <<>>]

\* lines 104-106
BeginBatch(report, proxy_type, urls) ==
    [report EXCEPT !.meta.total_urls = @ + Len(urls),
                   !.meta.proxy_types_used = Append(@, proxy_type)]

Step(exc, at, report) == [exc |-> exc, at |-> at, report |-> report]

\* lines 127-138: the statements run in order, and an exception leaves the
\* report as the statements before it made it
MergeBatch(report, proxy_type, urls, proxies, results) ==
    LET r1 == [report EXCEPT !.results = @ \o results.results]
        r2 == [r1 EXCEPT !.meta.successful = @ + results.successful]
        r3 == [r2 EXCEPT !.meta.failed = @ + results.failed]
        entry == [urls_count |-> Len(urls),
                  successful |-> results.successful,
                  failed |-> results.failed,
                  time_seconds |-> results.total_time_seconds,
                  time_is_null |-> "total_time_seconds" \in results.nulls,
                  proxies_used_count |-> Len(proxies)]
        r4 == [r3 EXCEPT !.proxy_type_details =
                  [k \in (DOMAIN @) \cup {proxy_type} |->
                      IF k = proxy_type THEN entry ELSE @[k]]]
    IN  IF "results" \notin results.keys THEN Step("KeyError", "main.py:127", report)
        ELSE IF "results" \in results.nulls THEN Step("TypeError", "main.py:127", report)
        ELSE IF "successful" \notin results.keys THEN Step("KeyError", "main.py:128", r1)
        ELSE IF "successful" \in results.nulls THEN Step("TypeError", "main.py:128", r1)
        ELSE IF "failed" \notin results.keys THEN Step("KeyError", "main.py:129", r2)
        ELSE IF "failed" \in results.nulls THEN Step("TypeError", "main.py:129", r2)
        ELSE IF "total_time_seconds" \notin results.keys
             THEN Step("KeyError", "main.py:136", r3)
        ELSE Step("", "", r4)

\* lines 140-146
Totals(report, total_time) ==
    LET r1 == [report EXCEPT !.meta.total_time_seconds = total_time]
        details == report.proxy_type_details
        go_time == SumTimes(details, DOMAIN details)
    IN  IF \E k \in DOMAIN details : details[k].time_is_null
        THEN Step("TypeError", "main.py:145", r1)
        ELSE Step("", "", [r1 EXCEPT !.meta.python_overhead_seconds =
                                         Max(0, total_time - go_time)])

-----------------------------------------------------------------------------
(* Inputs *)

\* (timeout, max_retries) pairs: both ends of both ranges, and the first
\* value beyond each end next to a value inside the other range
Params == { <<MinTimeout, MaxRetries>>, <<MaxTimeout, MinRetries>>,
            <<MinTimeout - 1, 1>>, <<MaxTimeout + 1, 1>>,
            <<5, MinRetries - 1>>, <<5, MaxRetries + 1>> }

RECURSIVE SeqsUpTo(_, _)
SeqsUpTo(S, n) ==
    IF n = 0 THEN {<<>>}
    ELSE LET shorter == SeqsUpTo(S, n - 1)
         IN  shorter \cup { Append(s, x) : s \in shorter, x \in S }

Fields == {None} \cup { {l} : l \in SeqsUpTo(Urls, MaxUrls) }

SubmittedCount(req) ==
    Len(UrlsOf(req.datacenter)) + Len(UrlsOf(req.residential)) + Len(UrlsOf(req.mobile))

Requests ==
    { req \in [datacenter : Fields, residential : Fields, mobile : Fields,
               timeout : {p[1] : p \in Params}, max_retries : {p[2] : p \in Params}] :
          /\ <<req.timeout, req.max_retries>> \in Params
          /\ SubmittedCount(req) <= MaxUrls }

\* DATACENTER_PROXIES=" p, ,q", RESIDENTIAL_PROXIES=" , " and MOBILE_PROXIES
\* unset
Environ ==
    [n \in {"DATACENTER_PROXIES", "RESIDENTIAL_PROXIES", "MOBILE_PROXIES"} |->
        IF n = "DATACENTER_PROXIES" THEN <<" ", "p", ",", " ", ",", "q">>
        ELSE IF n = "RESIDENTIAL_PROXIES" THEN <<" ", ",", " ">>
        ELSE <<>>]

-----------------------------------------------------------------------------
(* The state machine of one request *)

Init ==
    /\ request \in Requests
    /\ environ = Environ
    /\ pc = "received"
    /\ idx = 1
    /\ combined_results = NewReport
    /\ batch_proxies = <<>>
    /\ now = 0
    /\ start_time = 0
    /\ raised = NoError
    /\ resolved = <<>>
    /\ bridge_calls = <<>>
    /\ invocations = <<>>
    /\ runs = <<>>

\* FastAPI builds the ScrapeRequest before it calls the handler
Validate ==
    /\ pc = "received"
    /\ IF ScrapeRequestErrors(request) # {}
       THEN /\ pc' = "rejected"
            /\ raised' = Raise("ValidationError", "main.py:24")
       ELSE /\ pc' = "loop"
            /\ raised' = raised
    /\ UNCHANGED <<request, environ, idx, combined_results, batch_proxies, now,
                   start_time, resolved, bridge_calls, invocations, runs>>

CurrentType == ProxyTypes[idx]

CurrentUrls == UrlsOf(getattr(request, CurrentType))

\* lines 100-102: continue
SkipClass ==
    /\ pc = "loop"
    /\ idx <= Len(ProxyTypes)
    /\ ~ Truthy(getattr(request, CurrentType))
    /\ idx' = idx + 1
    /\ UNCHANGED <<request, environ, pc, combined_results, batch_proxies, now,
                   start_time, raised, resolved, bridge_calls, invocations, runs>>

\* lines 104-121 and go_bridge.py lines 36-74: up to the start of the process
StartClass ==
    /\ pc = "loop"
    /\ idx <= Len(ProxyTypes)
    /\ Truthy(getattr(request, CurrentType))
    /\ combined_results' = BeginBatch(combined_results, CurrentType, CurrentUrls)
    /\ batch_proxies' = get_proxy_list(environ, CurrentType)
    /\ resolved' = Append(resolved, CurrentType)
    /\ \E exe \in ExeStates :
        LET err == BridgeStart(exe)
        IN  /\ bridge_calls' = Append(bridge_calls,
                   [proxy_type |-> CurrentType, invocable |-> Invocable(exe)])
            /\ IF err.exc # ""
               THEN /\ pc' = "failed"
                    /\ raised' = err
                    /\ UNCHANGED <<invocations, start_time>>
               ELSE /\ pc' = "engine"
                    /\ raised' = raised
                    /\ start_time' = now
                    /\ invocations' = Append(invocations,
                           BuildCmd(CurrentUrls, batch_proxies', CurrentType,
                                    request.timeout, request.max_retries))
    /\ UNCHANGED <<request, environ, idx, now, runs>>

\* go_bridge.py lines 74-148 and lines 123-138: the process has terminated
EngineExit ==
    /\ pc = "engine"
    /\ \E outcome \in EngineOutcomes(CurrentUrls, CurrentType), d \in Durations :
        LET elapsed_time == (now + d) - start_time
            ret == BridgeFinish(CurrentUrls, CurrentType, outcome, elapsed_time)
            merged == MergeBatch(combined_results, CurrentType, CurrentUrls,
                                 batch_proxies, ret.value)
        IN  /\ now' = now + d
            /\ runs' = Append(runs, [proxy_type |-> CurrentType, urls |-> CurrentUrls,
                                     outcome |-> outcome, ret |-> ret])
            /\ IF ret.exc # ""
               THEN /\ pc' = "failed"
                    /\ raised' = Raise(ret.exc, ret.at)
                    /\ UNCHANGED <<combined_results, idx>>
               ELSE IF merged.exc # ""
               THEN /\ pc' = "failed"
                    /\ raised' = Raise(merged.exc, merged.at)
                    /\ combined_results' = merged.report
                    /\ idx' = idx
               ELSE /\ pc' = "loop"
                    /\ raised' = raised
                    /\ combined_results' = merged.report
                    /\ idx' = idx + 1
    /\ UNCHANGED <<request, environ, batch_proxies, start_time, resolved, bridge_calls,
                   invocations>>

\* lines 140-151
Finish ==
    /\ pc = "loop"
    /\ idx > Len(ProxyTypes)
    /\ LET done == Totals(combined_results, now - 0)
       IN  /\ combined_results' = done.report
           /\ IF done.exc # ""
              THEN /\ pc' = "failed"
                   /\ raised' = Raise(done.exc, done.at)
              ELSE /\ pc' = "returned"
                   /\ raised' = raised
    /\ UNCHANGED <<request, environ, idx, batch_proxies, now, start_time, resolved,
                   bridge_calls, invocations, runs>>

Next == Validate \/ SkipClass \/ StartClass \/ EngineExit \/ Finish

Spec == Init /\ [][Next]_vars

-----------------------------------------------------------------------------
(* Properties *)

Meta == combined_results.meta

Details == combined_results.proxy_type_details

ConcatUrls(req) ==
    UrlsOf(req.datacenter) \o UrlsOf(req.residential) \o UrlsOf(req.mobile)

IsPopulated(proxy_type) == UrlsOf(getattr(request, proxy_type)) # <<>>

PopulatedTypes == SelectSeq(ProxyTypes, IsPopulated)

\* exceptions that stand for an engine that is missing or cannot be invoked
EngineUnavailableErrors == {"FileNotFoundError", "PermissionError", "OSError"}

\* an output that is not a document of the result schema
NonConformant(stdout) ==
    \/ stdout.parse # "object"
    \/ stdout.doc.keys # DocKeys
    \/ stdout.doc.nulls # {}

RECURSIVE ReportedTime(_)
ReportedTime(rs) ==
    IF rs = <<>> THEN 0
    ELSE Head(rs).ret.value.total_time_seconds + ReportedTime(Tail(rs))

DigitValue(c) == CHOOSE d \in 0..9 : Digits[d + 1] = c

RECURSIVE ParseInt(_)
ParseInt(s) ==
    IF s = <<>> THEN 0
    ELSE IF Head(s) = "-" THEN 0 - ParseInt(Tail(s))
    ELSE 10 * ParseInt(SubSeq(s, 1, Len(s) - 1)) + DigitValue(s[Len(s)])

\* C1: in every returned report successful + failed equals total_urls, and
\* total_urls equals the number of URLs submitted, whatever the engine printed.
C1_TotalsConsistent ==
    pc = "returned" =>
        /\ Meta.successful + Meta.failed = Meta.total_urls
        /\ Meta.total_urls = SubmittedCount(request)

\* C2: every returned report holds exactly one result per submitted URL, in
\* submission order within a class and with the classes in the fixed order.
C2_OneResultPerUrl ==
    pc = "returned" =>
        [i \in DOMAIN combined_results.results |-> combined_results.results[i].url]
            = ConcatUrls(request)

\* C3: a non-zero exit makes the bridge return one failed result per URL of
\* the job, in the job's order, with attempts_made = 0, total = failed = the
\* number of URLs and successful = 0.
C3_NonZeroExitDegrades ==
    \A i \in DOMAIN runs :
        runs[i].outcome.returncode # 0 =>
            LET ret == runs[i].ret
                n == Len(runs[i].urls)
            IN  /\ ret.exc = ""
                /\ Len(ret.value.results) = n
                /\ \A k \in 1..n :
                    /\ ret.value.results[k].url = runs[i].urls[k]
                    /\ ret.value.results[k].success = FALSE
                    /\ ret.value.results[k].error.msg = "Go scraper process failed with code"
                    /\ ret.value.results[k].error.code = runs[i].outcome.returncode
                    /\ ret.value.results[k].attempts_made = 0
                /\ ret.value.total = n
                /\ ret.value.successful = 0
                /\ ret.value.failed = n

C3_Witness ==
    \E i \in DOMAIN runs :
        /\ runs[i].outcome.returncode # 0
        /\ Len(runs[i].urls) >= 2
        /\ pc = "returned"

\* C4: an exit with status zero and an output that does not conform to the
\* result schema makes the bridge return one failed result per URL, of kind
\* output malformed, with at most the first 1000 characters of the output.
C4_MalformedOutputDegrades ==
    \A i \in DOMAIN runs :
        (runs[i].outcome.returncode = 0 /\ NonConformant(runs[i].outcome.stdout)) =>
            LET ret == runs[i].ret
                n == Len(runs[i].urls)
            IN  /\ ret.exc = ""
                /\ Len(ret.value.results) = n
                /\ \A k \in 1..n :
                    /\ ret.value.results[k].success = FALSE
                    /\ ret.value.results[k].error.msg = "Failed to parse Go scraper output"
                    /\ ret.value.results[k].detailed_error.preview_len <= PreviewLen

\* C5: a request that got past validation fails only because the engine is
\* unavailable; no other exception reaches the request boundary.
C5_OnlyUnavailableAborts ==
    pc = "failed" => raised.exc \in EngineUnavailableErrors

\* C6: when the executable is missing or cannot be invoked at a bridge call,
\* no result is synthesized for that job, the request fails with an engine
\* unavailable error and no report is returned.
C6_UnavailableAborts ==
    \A i \in DOMAIN bridge_calls :
        ~ bridge_calls[i].invocable =>
            /\ pc = "failed"
            /\ raised.exc \in EngineUnavailableErrors
            /\ i = Len(bridge_calls)
            /\ Len(runs) = i - 1
            /\ Len(invocations) = i - 1
            /\ bridge_calls[i].proxy_type \notin DOMAIN Details
            /\ \A k \in DOMAIN combined_results.results :
                   combined_results.results[k].proxy_used # bridge_calls[i].proxy_type

C6_Witness ==
    \E i \in DOMAIN bridge_calls : ~ bridge_calls[i].invocable /\ i >= 2

InvalidRequest(req) ==
    \/ req.timeout < 1 \/ req.timeout > 60
    \/ req.max_retries < 0 \/ req.max_retries > 10
    \/ ConcatUrls(req) = <<>>
    \/ \E k \in DOMAIN ConcatUrls(req) :
           LET url == ConcatUrls(req)[k]
           IN  /\ (Len(url) < 7 \/ SubSeq(url, 1, 7) # <<"h", "t", "t", "p", ":", "/", "/">>)
               /\ (Len(url) < 8 \/
                      SubSeq(url, 1, 8) # <<"h", "t", "t", "p", "s", ":", "/", "/">>)

\* C7: a request is rejected exactly when its timeout is outside 1..60, its
\* max_retries outside 0..10, no list is populated or some URL lacks the
\* http:// or https:// prefix; a rejected request resolves no proxies and
\* invokes no engine.
C7_ValidationGate ==
    pc # "received" =>
        /\ (pc = "rejected") <=> InvalidRequest(request)
        /\ pc = "rejected" =>
              /\ raised.exc = "ValidationError"
              /\ resolved = <<>>
              /\ bridge_calls = <<>>
              /\ invocations = <<>>

C7_Witness ==
    /\ pc = "rejected"
    /\ request.timeout = 60
    /\ request.max_retries = 0
    /\ Len(ConcatUrls(request)) = 2
    /\ ConcatUrls(request)[1] = UrlA

\* C8: in every returned report the overhead is >= 0 and equals the larger
\* of 0 and the wall-clock time of the request minus the sum of the elapsed
\* figures of the classes.
C8_OverheadClamped ==
    pc = "returned" =>
        /\ Meta.python_overhead_seconds >= 0
        /\ Meta.total_time_seconds = now
        /\ Meta.python_overhead_seconds =
               (IF now - ReportedTime(runs) > 0 THEN now - ReportedTime(runs) ELSE 0)

C8_Witness ==
    /\ pc = "returned"
    /\ Len(runs) >= 2
    /\ ReportedTime(runs) > now
    /\ Meta.python_overhead_seconds = 0

\* C9: a request that fails does so before the results of any class have
\* been merged into the report.
C9_FailsBeforeAggregation ==
    pc = "failed" =>
        /\ combined_results.results = <<>>
        /\ DOMAIN Details = {}

InvokedTypes == [i \in DOMAIN invocations |-> invocations[i].proxy_type]

ParamsForwarded ==
    \A i \in DOMAIN invocations :
        /\ ParseInt(invocations[i].timeout) = request.timeout
        /\ ParseInt(invocations[i].max_retries) = request.max_retries

Sequential ==
    /\ Len(invocations) - Len(runs) \in {0, 1}
    /\ (Len(invocations) = Len(runs) + 1) <=> (pc = "engine")

\* C10 as stated: once an accepted request has ended, the engine has been
\* invoked exactly once for each populated class, in the fixed order, one
\* invocation after the other and with the request's timeout and
\* max_retries.
C10_ExactlyOncePerPopulatedClass ==
    pc \in {"returned", "failed"} =>
        /\ InvokedTypes = PopulatedTypes
        /\ Sequential
        /\ ParamsForwarded

\* C10 as amended: the invocations are at all times the populated classes in
\* the fixed order up to the class the loop is at (so at most one invocation
\* per populated class and none for an empty one), all of them when a report
\* is returned; at most one process runs, and each invocation carries the
\* request's timeout and max_retries.
C10_InvocationOrder ==
    /\ Len(InvokedTypes) <= Len(PopulatedTypes)
    /\ InvokedTypes = SubSeq(PopulatedTypes, 1, Len(InvokedTypes))
    /\ pc = "returned" => InvokedTypes = PopulatedTypes
    /\ Sequential
    /\ ParamsForwarded

C10_Witness ==
    /\ pc = "returned"
    /\ Len(invocations) = 2
    /\ runs[1].outcome.returncode # 0
    /\ request.timeout = 60
    /\ request.mobile # None

====
